---- MODULE Spec2Model ----
(***************************************************************************)
(* A model of the note editor of src/main.rs (NoteApp): the note buffer,   *)
(* the checker's suggestions, the notes/ directory, and one action per     *)
(* frame of NoteApp::update: a frame carries at most one click, and the    *)
(* action is the whole frame (the click's handler, the editor layout and   *)
(* the suggestions panel). The checker and the file system lie outside the *)
(* program: what a request or a read returns is the environment's choice.  *)
(*                                                                         *)
(* A Rust String is modelled as the sequence of its UTF-8 bytes; offsets   *)
(* are byte offsets, as in the code. Positions are 0-based as in the code, *)
(* so byte i of the code is s[i + 1] here.                                 *)
(***************************************************************************)
EXTENDS Integers, Sequences, FiniteSets, TLC

\* note_content, files, selected_file, suggestions: the fields of NoteApp.
\* status: "running", or how the process ended ("panic_range" and
\*   "panic_boundary" for the two panics of a slice, "hung" for a loop that
\*   never ends).
\* last: what the last frame did (history).
\* fresh: the suggestions are those of a check of the buffer's present content
\*   (history).
\* origin: the name of the file whose read gave the buffer its content, None
\*   before the first read that succeeds (history).
VARIABLES note_content, files, selected_file, suggestions, status, last, fresh, origin

vars == <<note_content, files, selected_file, suggestions, status, last, fresh, origin>>

(***************************************************************************)
(* Bounds of the model.                                                    *)
(***************************************************************************)
\* longest buffer, in bytes, an accepted replacement may produce
MaxLen == 3

(***************************************************************************)
(* Strings.                                                                *)
(***************************************************************************)
Min(a, b) == IF a < b THEN a ELSE b

\* bytes 10xxxxxx continue a multi-byte character
IsContinuation(b) == b >= 128 /\ b < 192

\* str::is_char_boundary
is_char_boundary(s, i) ==
  \/ i = 0
  \/ i = Len(s)
  \/ (i > 0 /\ i < Len(s) /\ ~IsContinuation(s[i + 1]))

\* the bytes s[a..b] of the code
Bytes(s, a, b) == SubSeq(s, a + 1, b)

\* what &s[a..b] does: "ok", or the panic it raises
SliceFault(s, a, b) ==
  IF a > b \/ b > Len(s) THEN "panic_range"
  ELSE IF ~is_char_boundary(s, a) \/ ~is_char_boundary(s, b) THEN "panic_boundary"
  ELSE "ok"

\* String::replace_range(a..b, r) on a range that does not panic
replace_range(s, a, b, r) == Bytes(s, 0, a) \o r \o Bytes(s, b, Len(s))

\* position (1-based) of the first line feed of s, 0 when there is none
RECURSIVE FirstLF(_, _)
FirstLF(s, k) ==
  IF k > Len(s) THEN 0
  ELSE IF s[k] = 10 THEN k
  ELSE FirstLF(s, k + 1)

\* a line without its carriage return, when the line feed followed one
StripCR(l) == IF Len(l) > 0 /\ l[Len(l)] = 13 THEN SubSeq(l, 1, Len(l) - 1) ELSE l

\* str::lines: the pieces between line feeds, no piece after a final line feed
RECURSIVE lines(_)
lines(s) ==
  IF s = <<>> THEN <<>>
  ELSE LET k == FirstLF(s, 1)
       IN IF k = 0 THEN <<s>>
          ELSE <<StripCR(SubSeq(s, 1, k - 1))>> \o lines(SubSeq(s, k + 1, Len(s)))

(***************************************************************************)
(* The editor layout loop.                                                 *)
(***************************************************************************)
\* index of the first suggestion that starts at `cursor` of the line at
\* `offset`, 0 when none does (the for loop with its break)
RECURSIVE FirstMatchFrom(_, _, _, _, _)
FirstMatchFrom(sugg, j, offset, linelen, cursor) ==
  IF j > Len(sugg) THEN 0
  ELSE IF /\ sugg[j].offset >= offset
          /\ sugg[j].offset < offset + linelen
          /\ sugg[j].offset - offset = cursor
       THEN j
       ELSE FirstMatchFrom(sugg, j + 1, offset, linelen, cursor)

\* a match that looks for a suggestion of the line and forgets to compare
\* its start with the cursor
FirstMatchInLine(sugg, offset, linelen, cursor) ==
  LET S == {j \in 1..Len(sugg) :
              sugg[j].offset >= offset /\ sugg[j].offset < offset + linelen}
  IN IF S = {} THEN 0 ELSE CHOOSE j \in S : \A k \in S : j <= k

FirstMatch(sugg, offset, linelen, cursor) ==
  FirstMatchFrom(sugg, 1, offset, linelen, cursor)

\* length of the highlighted run of a matched suggestion
HighlightLen(s, linelen, rel_offset) == Min(s.length, linelen - rel_offset)

Run(kind, lineno, at, text, span) ==
  [kind |-> kind, line |-> lineno, at |-> at, text |-> text, span |-> span]

\* the while loop over one line: the runs appended, and how the loop ends
\* ("ok", a panic of a slice, or "hung" when an iteration leaves cursor and
\* every other input of the next iteration unchanged)
RECURSIVE LayoutLine(_, _, _, _, _, _)
LayoutLine(sugg, line, lineno, offset, cursor, runs) ==
  IF cursor >= Len(line) THEN [st |-> "ok", runs |-> runs]
  ELSE LET j == FirstMatch(sugg, offset, Len(line), cursor)
       IN IF j # 0
          THEN LET rel_offset == sugg[j].offset - offset
                   len == HighlightLen(sugg[j], Len(line), rel_offset)
                   f == SliceFault(line, rel_offset, rel_offset + len)
               IN IF f # "ok" THEN [st |-> f, runs |-> runs]
                  ELSE IF len = 0 THEN [st |-> "hung", runs |-> runs]
                  ELSE LayoutLine(sugg, line, lineno, offset, cursor + len,
                         Append(runs, Run("highlight", lineno, offset + rel_offset,
                                          Bytes(line, rel_offset, rel_offset + len), j)))
          ELSE LET f == SliceFault(line, cursor, cursor + 1)
               IN IF f # "ok" THEN [st |-> f, runs |-> runs]
                  ELSE LayoutLine(sugg, line, lineno, offset, cursor + 1,
                         Append(runs, Run("plain", lineno, offset + cursor,
                                          Bytes(line, cursor, cursor + 1), 0)))

\* the for loop over the lines: line number, the line's runs, "\n"
RECURSIVE LayoutLines(_, _, _, _, _)
LayoutLines(sugg, ls, i, offset, runs) ==
  IF i > Len(ls) THEN [st |-> "ok", runs |-> runs]
  ELSE LET r == LayoutLine(sugg, ls[i], i, offset, 0,
                           Append(runs, Run("lineno", i, offset, <<>>, 0)))
       IN IF r.st # "ok" THEN r
          ELSE LayoutLines(sugg, ls, i + 1, offset + Len(ls[i]) + 1,
                           Append(r.runs, Run("newline", i, offset + Len(ls[i]), <<10>>, 0)))

\* one layout pass over the buffer and the suggestions
Layout(content, sugg) == LayoutLines(sugg, lines(content), 1, 0, <<>>)

(***************************************************************************)
(* The suggestions panel.                                                  *)
(***************************************************************************)
\* the snippet slice of one suggestion: "ok" or its panic
SnippetFault(content, s) == SliceFault(content, s.offset, s.offset + s.length)

\* the snippet slices of suggestions j..upto, in order: the first panic, or "ok"
RECURSIVE PanelFault(_, _, _, _)
PanelFault(content, sugg, j, upto) ==
  IF j > upto THEN "ok"
  ELSE IF SnippetFault(content, sugg[j]) # "ok" THEN SnippetFault(content, sugg[j])
  ELSE PanelFault(content, sugg, j + 1, upto)

\* replacements.get(0) with the placeholder of the button's label in the
\* place of None
FirstReplacementOrPlaceholder(s) ==
  IF Len(s.replacements) >= 1 THEN <<s.replacements[1]>> ELSE << <<226, 157, 140>> >>

\* replacements.get(0): the sequence holding the first replacement, or the
\* empty sequence for None
FirstReplacement(s) ==
  IF Len(s.replacements) >= 1 THEN <<s.replacements[1]>> ELSE <<>>

(***************************************************************************)
(* The checker and the file system, as the program sees them.              *)
(***************************************************************************)
None == "none"
Names == <<"n1", "n2">>

\* texts a read of a note can return: "aa", "é" (SpecLayout below covers
\* texts of several lines)
NoteTexts == {<<97, 97>>, <<195, 169>>}

\* the replacement lists a finding may carry: none, or the one choice "bb"
ReplacementLists == {<<>>, << <<98, 98>> >>}

\* the findings of a response to the program: the spans of one or two bytes
\* within the first two bytes of a text (SpecLayout below covers longer and
\* empty findings)
Findings ==
  {f \in [offset : 0..1, length : 1..2, replacements : ReplacementLists] :
     f.offset + f.length <= 2}

\* the sequences of no, one or two elements of S
UpToTwo(S) == {<<>>} \cup {<<x>> : x \in S} \cup {<<x, y>> : x \in S, y \in S}

\* what client.post(..).send() followed by resp.json() can give: an error of
\* send, a response whose body is no LTResponse (a malformed payload, or the
\* error text of a non-2xx response), or parsed matches
Responses ==
  {[kind |-> "send_err", matches |-> <<>>], [kind |-> "unparsed", matches |-> <<>>]}
    \cup {[kind |-> "matches", matches |-> m] : m \in UpToTwo(Findings)}

\* what std::fs::read_to_string can give: <<text>>, or <<>> for an error
Reads == {<<>>} \cup {<<t>> : t \in NoteTexts}

\* what load_file_list can meet: notes/ is missing and cannot be created,
\* read_dir fails, or read_dir gives the entries in the directory's order
\* (none when notes/ has just been created)
Listings ==
  {[kind |-> "mkdir_fail", entries |-> <<>>], [kind |-> "readdir_fail", entries |-> <<>>],
   [kind |-> "ok", entries |-> <<>>], [kind |-> "ok", entries |-> <<"n2", "n1">>]}

\* NoteApp::check_suggestions: the suggestions after the call
check_suggestions(sugg, resp) ==
  IF resp.kind = "matches" THEN resp.matches ELSE sugg

\* whether check_suggestions wrote to stderr
check_reported(resp) == resp.kind = "send_err"

\* a load that takes the text of a failed read to be empty
\* (read_to_string(path).unwrap_or_default())
load_selected_file_or_default(content, sel, read) ==
  IF sel # None THEN (IF read # <<>> THEN read[1] ELSE <<>>) ELSE content

\* NoteApp::load_selected_file: the buffer after the call
load_selected_file(content, sel, read) ==
  IF sel # None /\ read # <<>> THEN read[1] ELSE content

\* whether NoteApp::save_current_file writes, and whether it reports
save_writes(sel) == sel # None
save_reported(sel, io) == sel # None /\ io = "fail"

\* Vec::sort of file names
sort(entries) == SelectSeq(Names, LAMBDA n : \E i \in 1..Len(entries) : entries[i] = n)

\* NoteApp::load_file_list: the file list after the call
load_file_list(fs, listing) == IF listing.kind = "ok" THEN sort(listing.entries) ELSE fs

\* whether NoteApp::load_file_list wrote to stderr
list_reported(listing) == listing.kind = "mkdir_fail"

(***************************************************************************)
(* Frames.                                                                 *)
(***************************************************************************)
\* the editor layout and then the whole suggestions panel of a frame without
\* a click in the panel: "ok", or how the frame dies
Render(content, sugg) ==
  IF Layout(content, sugg).st # "ok" THEN Layout(content, sugg).st
  ELSE PanelFault(content, sugg, 1, Len(sugg))

\* the process after a frame that ended as f: still running, or dead
After(f) == IF f = "ok" THEN "running" ELSE f

\* what the last frame did: the click, the suggestion clicked, the outcome
\* of the checker call ("none" without a call), the outcome of the file
\* operation ("none" without one), whether stderr was written
Last(op, idx, chk, io, reported) ==
  [op |-> op, idx |-> idx, chk |-> chk, io |-> io, reported |-> reported]

Init ==
  /\ note_content = <<>>
  /\ \E listing \in Listings : files = load_file_list(<<>>, listing)
  /\ selected_file = None
  /\ suggestions = <<>>
  /\ status = "running"
  /\ fresh = TRUE
  /\ origin = None
  /\ last = Last("new", 0, "none", "none", FALSE)

\* a frame without a click whose layout pass takes the suggestions out of
\* the set as it reads them (a drain in the place of the borrow)
IdleDraining ==
  /\ status = "running"
  /\ status' = After(Render(note_content, suggestions))
  /\ last' = Last("idle", 0, "none", "none", FALSE)
  /\ suggestions' = <<>>
  /\ UNCHANGED <<note_content, files, selected_file, fresh, origin>>

\* a frame without a click
Idle ==
  /\ status = "running"
  /\ status' = After(Render(note_content, suggestions))
  /\ last' = Last("idle", 0, "none", "none", FALSE)
  /\ UNCHANGED <<note_content, files, selected_file, suggestions, fresh, origin>>

\* a frame with a click on Save (File menu, or the editor's button)
Save ==
  /\ status = "running"
  /\ \E io \in {"ok", "fail"} :
       last' = Last("save", 0, "none", IF save_writes(selected_file) THEN io ELSE "none",
                    save_reported(selected_file, io))
  /\ status' = After(Render(note_content, suggestions))
  /\ UNCHANGED <<note_content, files, selected_file, suggestions, fresh, origin>>

\* a frame with a click on Refresh
Refresh ==
  /\ status = "running"
  /\ \E listing \in Listings :
       /\ files' = load_file_list(files, listing)
       /\ last' = Last("refresh", 0, "none", IF listing.kind = "ok" THEN "ok" ELSE "fail",
                       list_reported(listing))
  /\ status' = After(Render(note_content, suggestions))
  /\ UNCHANGED <<note_content, selected_file, suggestions, fresh, origin>>

\* a frame with a click on "Open File...": the picker is cancelled, or gives
\* a file, whose read fails or succeeds
OpenFile ==
  /\ status = "running"
  /\ \/ /\ last' = Last("open", 0, "none", "cancelled", FALSE)
        /\ UNCHANGED <<note_content, selected_file, origin>>
     \/ \E i \in 1..Len(Names), read \in Reads :
          /\ note_content' = IF read # <<>> THEN read[1] ELSE note_content
          /\ selected_file' = IF read # <<>> THEN Names[i] ELSE selected_file
          /\ origin' = IF read # <<>> THEN Names[i] ELSE origin
          /\ last' = Last("open", 0, "none", IF read # <<>> THEN "ok" ELSE "fail", FALSE)
  /\ fresh' = (fresh /\ note_content' = note_content)
  /\ status' = After(Render(note_content', suggestions))
  /\ UNCHANGED <<files, suggestions>>

\* a frame with a click on a file of the list
FileClick ==
  /\ status = "running"
  /\ \E i \in 1..Len(files), read \in Reads :
       /\ selected_file' = files[i]
       /\ note_content' = load_selected_file(note_content, files[i], read)
       /\ origin' = IF read # <<>> THEN files[i] ELSE origin
       /\ last' = Last("click", i, "none", IF read # <<>> THEN "ok" ELSE "fail", FALSE)
  /\ fresh' = (fresh /\ note_content' = note_content)
  /\ status' = After(Render(note_content', suggestions))
  /\ UNCHANGED <<files, suggestions>>

\* a frame with a click on "Check Grammar": the layout, the check, the panel
Check ==
  /\ status = "running"
  /\ IF Layout(note_content, suggestions).st # "ok"
     THEN /\ status' = After(Layout(note_content, suggestions).st)
          /\ last' = Last("check", 0, "none", "none", FALSE)
          /\ UNCHANGED <<suggestions, fresh>>
     ELSE \E resp \in Responses :
            /\ suggestions' = check_suggestions(suggestions, resp)
            /\ fresh' = (fresh \/ resp.kind = "matches")
            /\ status' = After(PanelFault(note_content, suggestions', 1, Len(suggestions')))
            /\ last' = Last("check", 0, resp.kind, "none", check_reported(resp))
  /\ UNCHANGED <<note_content, files, selected_file, origin>>

\* a frame with a click on the button of suggestion i: the layout, the
\* snippets of suggestions 1..i, then the click's handler; without a
\* replacement the loop goes on to the snippets after i, with one the buffer
\* is spliced, the check runs, and the loop is left
Accept ==
  /\ status = "running"
  /\ \E i \in 1..Len(suggestions) :
       LET before == IF Layout(note_content, suggestions).st # "ok"
                     THEN Layout(note_content, suggestions).st
                     ELSE PanelFault(note_content, suggestions, 1, i)
           s == suggestions[i]
           choice == FirstReplacement(s)
       IN IF before # "ok"
          THEN /\ status' = After(before)
               /\ last' = Last("accept", i, "none", "none", FALSE)
               /\ UNCHANGED <<note_content, suggestions, fresh>>
          ELSE IF choice = <<>>
          THEN /\ status' = After(PanelFault(note_content, suggestions, i + 1, Len(suggestions)))
               /\ last' = Last("accept", i, "none", "none", FALSE)
               /\ UNCHANGED <<note_content, suggestions, fresh>>
          ELSE /\ Len(replace_range(note_content, s.offset, s.offset + s.length, choice[1]))
                    <= MaxLen
               /\ note_content' =
                    replace_range(note_content, s.offset, s.offset + s.length, choice[1])
               /\ \E resp \in Responses :
                    /\ suggestions' = check_suggestions(suggestions, resp)
                    /\ fresh' = (resp.kind = "matches"
                                   \/ (fresh /\ note_content' = note_content))
                    /\ last' = Last("accept", i, resp.kind, "none", check_reported(resp))
               /\ status' = "running"
  /\ UNCHANGED <<files, selected_file, origin>>

Next == Idle \/ Save \/ Refresh \/ OpenFile \/ FileClick \/ Check \/ Accept

Spec == Init /\ [][Next]_vars

(***************************************************************************)
(* The layout pass as a function of its inputs: any text in the buffer,    *)
(* any suggestions left by an earlier check, then one frame without a      *)
(* click.                                                                  *)
(***************************************************************************)
\* "a\na", "aa\na", "aaa", "\na", "éa"
LayoutTexts ==
  {<<97, 10, 97>>, <<97, 97, 10, 97>>, <<97, 97, 97>>, <<10, 97>>, <<195, 169, 97>>}

\* offsets 0..3, lengths 0..3
LayoutFindings == [offset : 0..3, length : 0..3, replacements : {<<>>}]

InitLayout ==
  /\ note_content \in LayoutTexts
  /\ suggestions \in UpToTwo(LayoutFindings)
  /\ files = <<>>
  /\ selected_file = None
  /\ status = "running"
  /\ fresh = FALSE
  /\ origin = None
  /\ last = Last("new", 0, "none", "none", FALSE)

NextLayout == Idle

SpecLayout == InitLayout /\ [][NextLayout]_vars

(***************************************************************************)
(* The claims.                                                             *)
(***************************************************************************)
End(s) == s.offset + s.length

\* the step is a frame in which the click on suggestion last'.idx spliced
\* the buffer (every splice is followed by a checker call)
AcceptSpliced == last'.op = "accept" /\ last'.chk # "none"

\* the step is a frame in which a checker call failed
CheckFailed == last'.chk \in {"send_err", "unparsed"}

\* C1: offset validity. In every reachable state every span of the
\* suggestion set satisfies 0 <= start <= end <= length of the buffer.
C1_OffsetValidity ==
  \A j \in 1..Len(suggestions) :
    /\ 0 <= suggestions[j].offset
    /\ suggestions[j].offset <= End(suggestions[j])
    /\ End(suggestions[j]) <= Len(note_content)

\* C2: no span of an old generation is applied to a newer buffer. Whenever
\* accepting a suggestion splices the buffer, the suggestion set was produced
\* by a check of exactly the content the buffer holds at that moment.
C2_NoStaleApply == [][AcceptSpliced => fresh]_vars

\* C3: apply consistency. After accepting a span the buffer is the text
\* before the span, the replacement, the text after the span, and the
\* accepted span is no longer in the set, whatever the checker answered (a
\* span of a set the checker has just returned is a new finding).
C3_ApplyConsistency ==
  [][AcceptSpliced =>
       LET s == suggestions[last'.idx]
       IN /\ note_content' = Bytes(note_content, 0, s.offset) \o s.replacements[1]
                               \o Bytes(note_content, End(s), Len(note_content))
          /\ \/ last'.chk = "matches"
             \/ \A k \in 1..Len(suggestions') : suggestions'[k] # s]_vars

\* C4: shift correctness. After accepting span S with a replacement of
\* length L, every span the set keeps whose start >= S.end has moved by
\* delta = L - (S.end - S.start).
C4_ShiftCorrectness ==
  [][(AcceptSpliced /\ last'.chk # "matches") =>
       LET s == suggestions[last'.idx]
           delta == Len(s.replacements[1]) - s.length
       IN \A j \in 1..Len(suggestions) :
            (j # last'.idx /\ suggestions[j].offset >= End(s)) =>
              \E k \in 1..Len(suggestions') :
                suggestions'[k] = [suggestions[j] EXCEPT !.offset = @ + delta]]_vars

\* C5: failure atomicity. A frame whose checker call fails, the call made
\* while accepting a suggestion included, leaves the buffer and the
\* suggestion set as they were before the frame.
C5_FailureAtomicity ==
  [][CheckFailed => (note_content' = note_content /\ suggestions' = suggestions)]_vars

\* C6: accepting a suggestion that has no replacement at the chosen index
\* is ignored: the buffer and the suggestion set are unchanged and no
\* checker call is made.
C6_NoChoiceIgnored ==
  [][(last'.op = "accept" /\ Len(suggestions[last'.idx].replacements) = 0) =>
       /\ note_content' = note_content
       /\ suggestions' = suggestions
       /\ last'.chk = "none"]_vars

\* the click on a suggestion without a replacement was handled, the frame
\* went on to its end
C6_Witness ==
  /\ last.op = "accept"
  /\ status = "running"
  /\ last.chk = "none"
  /\ note_content # <<>>
  /\ Len(suggestions[last.idx].replacements) = 0

\* C7: non-overlap. While the program runs, the suggestion set is sorted by
\* start and any two of its spans are disjoint.
C7_NonOverlap ==
  status = "running" =>
    \A a, b \in 1..Len(suggestions) :
      a < b => /\ suggestions[a].offset <= suggestions[b].offset
               /\ End(suggestions[a]) <= suggestions[b].offset

\* C8: Unicode safety. No slice or splice of the buffer is taken at an
\* offset inside a character.
C8_UnicodeSafety == status # "panic_boundary"

\* C9: zero-length span. The layout pass terminates whatever zero-length
\* spans the suggestion set holds.
C9_ZeroLengthTerminates == status # "hung"

\* the suggestion set is in range of the buffer, sorted and disjoint
WellFormed(content, sugg) ==
  /\ \A j \in 1..Len(sugg) : sugg[j].length > 0 /\ End(sugg[j]) <= Len(content)
  /\ \A a, b \in 1..Len(sugg) : a < b => End(sugg[a]) <= sugg[b].offset

\* span s covers the last byte before the line feed at byte b and the first
\* byte after it
Straddles(content, s, b) ==
  /\ b >= 1 /\ b + 1 < Len(content)
  /\ content[b + 1] = 10 /\ content[b] # 10 /\ content[b + 2] # 10
  /\ s.offset < b /\ b + 1 < End(s)

\* C10: boundary truncation. A span that straddles a line break yields a
\* highlighted run that ends at the break and a highlighted run that starts
\* at the first character of the next line, both of that span.
C10_BoundaryTruncation ==
  (last.op = "idle" /\ status = "running" /\ WellFormed(note_content, suggestions)) =>
    LET runs == Layout(note_content, suggestions).runs
    IN \A j \in 1..Len(suggestions), b \in 1..Len(note_content) :
         Straddles(note_content, suggestions[j], b) =>
           /\ \E r \in 1..Len(runs) :
                /\ runs[r].kind = "highlight" /\ runs[r].span = j
                /\ runs[r].at + Len(runs[r].text) = b
           /\ \E r \in 1..Len(runs) :
                /\ runs[r].kind = "highlight" /\ runs[r].span = j
                /\ runs[r].at = b + 1

\* C11: accepting a suggestion never itself triggers a checker call. A frame
\* whose click is on the button of a suggestion makes no checker request.
C11_NoAutoRefresh == [][last'.op = "accept" => last'.chk = "none"]_vars

C13_FailureReported ==
  [][CheckFailed => (suggestions' = suggestions /\ last'.reported)]_vars

\* C14: a file read or write failure does not affect the buffer. After a
\* frame in which the read of the clicked or picked file failed, or the
\* write of Save failed, the buffer holds what it held before the frame.
C14_IoFailureKeepsBuffer ==
  [][(last'.op \in {"click", "open", "save"} /\ last'.io = "fail") =>
       note_content' = note_content]_vars

\* the read of a file clicked in the list has failed while the buffer held
\* a text
C14_Witness ==
  /\ last.op = "click"
  /\ last.io = "fail"
  /\ status = "running"
  /\ note_content # <<>>

\* C15: save-target consistency. Whenever Save has written the buffer to
\* notes/<selected_file>, the buffer's content came from the last read of
\* that same file that succeeded (accepted replacements apart).
C15_SaveTarget ==
  (last.op = "save" /\ last.io = "ok") => origin = selected_file

\* every character of the text is a single byte
SingleByte(content) == \A k \in 1..Len(content) : content[k] < 128

\* every span is not empty and ends within the text
InRange(content, sugg) ==
  \A j \in 1..Len(sugg) : sugg[j].length > 0 /\ End(sugg[j]) <= Len(content)

IsText(run) == run.kind \in {"plain", "highlight"}

\* the texts of the plain and highlighted runs k.. of line i, concatenated
RECURSIVE TextOfLine(_, _, _)
TextOfLine(runs, i, k) ==
  IF k > Len(runs) THEN <<>>
  ELSE (IF runs[k].line = i /\ IsText(runs[k]) THEN runs[k].text ELSE <<>>)
         \o TextOfLine(runs, i, k + 1)

\* C16: layout coverage. For a buffer of single-byte characters and
\* suggestions whose spans are not empty and in range, overlapping or not,
\* the layout pass completes, the run texts of each line concatenated are
\* that line, every run starts where the run before it ended or later, and
\* no two highlighted runs overlap.
C16_LayoutCoverage ==
  (last.op = "idle" /\ SingleByte(note_content) /\ InRange(note_content, suggestions)) =>
    LET lay == Layout(note_content, suggestions)
        runs == lay.runs
        ls == lines(note_content)
    IN /\ status = "running"
       /\ lay.st = "ok"
       /\ \A i \in 1..Len(ls) : TextOfLine(runs, i, 1) = ls[i]
       /\ \A a, b \in 1..Len(runs) :
            (a < b /\ IsText(runs[a]) /\ IsText(runs[b])) =>
              runs[a].at + Len(runs[a].text) <= runs[b].at

\* a layout pass has highlighted a span and has met a second span that
\* starts inside the highlighted run
C16_Witness ==
  /\ last.op = "idle"
  /\ SingleByte(note_content)
  /\ InRange(note_content, suggestions)
  /\ LET runs == Layout(note_content, suggestions).runs
     IN \E r \in 1..Len(runs), j \in 1..Len(suggestions) :
          /\ runs[r].kind = "highlight"
          /\ runs[r].at < suggestions[j].offset
          /\ suggestions[j].offset < runs[r].at + Len(runs[r].text)

====
